---- MODULE Spec2Model ----
(***************************************************************************)
(* Model of the segmented download client of buggy_client/src/main.rs:     *)
(* the scheduling loop of main (rounds of worker threads, join loop,       *)
(* missing-chunk policy), the worker closure (retry loop around the range  *)
(* request) and the assembly of the captured chunks.                       *)
(***************************************************************************)
EXTENDS Integers, Sequences, FiniteSets, TLC

\* ---------------------------------------------------------------- bounds
MaxConc == 2        \* largest value of --threads explored
MaxCursor == 3      \* rounds start only while next_chunk < MaxCursor
MaxErrors == 3      \* Transport failures injected in one run
ChunkSize == 2      \* chunk_size (bytes per chunk) explored
ForceConc == 2      \* largest value of --threads in the runs with many failures
ForceErrors == 12   \* Transport failures injected in those runs
MaxPanics == 1      \* worker panics injected in the runs with panics
PanicErrors == 1    \* Transport failures injected in those runs

\* ------------------------------------------------------ program constants
max_retries == 3
max_chunk_retries == 2

VARIABLES
    concurrent_downloads, \* --threads
    server,               \* behaviour of the peer for this run
    chunks,               \* Arc<Mutex<Vec<Chunk>>>
    processed_chunks,     \* Arc<Mutex<HashSet<usize>>>
    total_bytes,          \* Arc<Mutex<usize>>
    download_errors,      \* Arc<Mutex<Vec<(usize, String)>>>
    next_chunk,           \* cursor
    eof_reached,
    retry_count,
    batch_eof,
    handles,              \* JoinHandles of the current round, in spawn order
    pc,                   \* position of main
    idx,                  \* loop variable of the spawn loop / join loop
    missing_chunks,       \* last value computed by the missing-chunk policy
    worker,               \* the thread behind each slot of the current round
    all_chunks,           \* sorted snapshot taken by main
    all_data,             \* assembled bytes
    held,                 \* for each Mutex, the workers holding its guard
    poisoned,             \* Mutexes whose holder panicked
    panics,               \* worker panics injected so far
    err_budget,           \* Transport failures the peer causes at most
    batch_rounds,         \* rounds started at the current cursor
    verify_hash,          \* --verify, an Option: {} or {hash}
    output_file,          \* --output given
    checksum,             \* outcome of the verification
    saved,                \* content written to the output file: <<>> or <<bytes>>
    result                \* what main returned

vars == <<concurrent_downloads, server, chunks, processed_chunks, total_bytes,
          download_errors, next_chunk, eof_reached, retry_count, batch_eof,
          handles, pc, idx, missing_chunks, worker, all_chunks, all_data,
          held, poisoned, panics, err_budget, batch_rounds,
          verify_hash, output_file, checksum, saved, result>>

\* variables of the threads' environment and of the end of main
threadEnv == <<held, poisoned, panics, err_budget>>
outcome == <<verify_hash, output_file, checksum, saved, result>>

\* ----------------------------------------------------------- the peer
Slots == 0 .. (MaxConc - 1)

\* A response is a sequence of tokens, all integers: bytes of the resource
\* are >= 0, everything else is negative. A header block ends with the
\* blank-line delimiter; the marker text "400 Invalid range:" is one token.
CR == -13
LF == -10
HttpVersion == -11        \* "HTTP/1.1"
StatusOk == -200          \* "200 OK"
EofMarker == -400         \* "400 Invalid range:"
Junk == -1                \* a body byte that is not part of the resource
Delimiter == <<CR, LF, CR, LF>>
OkHeaders == <<HttpVersion, StatusOk>> \o Delimiter
EofHeaders == <<HttpVersion, EofMarker>> \o Delimiter
NoHeaders == <<>>

\* headers.contains("400 Invalid range:")
ContainsMarker(headers) == \E k \in 1 .. Len(headers) : headers[k] = EofMarker

\* The bytes of the resource are their own offsets: chunk id covers offsets
\* id*chunk_size .. ; a body of length len carries the first len of them.
Body(id, len) == [k \in 1 .. len |-> id * ChunkSize + (k - 1)]

OkResp(data, headers) == [ok |-> TRUE, data |-> data, headers |-> headers]
ErrResp == [ok |-> FALSE, data |-> <<>>, headers |-> NoHeaders]

\* A response cut off inside its header block: no delimiter.
Truncated(id) == <<HttpVersion, StatusOk, CR, LF>> \o Body(id, 1)

\* What one exchange can bring for a chunk id: the bytes read until the
\* peer closed the connection, or an I/O failure.
DataResponses(id) == {OkHeaders \o Body(id, len) : len \in 1 .. ChunkSize}

EofResponses == {EofHeaders, EofHeaders \o <<Junk>>}

Received(bytes) == [ok |-> TRUE, response |-> bytes]
IoFailure == [ok |-> FALSE, response |-> <<>>]

Exchanges(srv, id) ==
    IF srv.mode = "clean"
    THEN IF id < srv.K
         THEN {Received(OkHeaders \o Body(id, ChunkSize))}
         ELSE {Received(b) : b \in EofResponses}
    ELSE IF srv.mode = "eof_from"
    THEN (IF id < srv.K
          THEN {Received(b) : b \in DataResponses(id)}
          ELSE {Received(b) : b \in EofResponses})
         \cup {IoFailure}
    ELSE {Received(b) : b \in DataResponses(id) \cup EofResponses
                              \cup {<<>>, OkHeaders, Truncated(id)}}
         \cup {IoFailure}

\* for i in 0..response.len().saturating_sub(3) { if response[i..i+4] is
\* CR LF CR LF { headers_end = i + 4; break; } }   (1-based here)
SaturatingSub(a, b) == IF a >= b THEN a - b ELSE 0

HeadersEnd(response) ==
    LET hits == {i \in 1 .. SaturatingSub(Len(response), 3) :
                    /\ response[i] = CR /\ response[i + 1] = LF
                    /\ response[i + 2] = CR /\ response[i + 3] = LF}
    IN IF hits = {} THEN 0
       ELSE (CHOOSE i \in hits : \A j \in hits : i <= j) + 3

\* if response.is_empty() { return Ok((Vec::new(), String::new())); } ...
\* if headers_end == 0 { return Ok((Vec::new(), String::new())); }
\* Ok((response[headers_end..], response[..headers_end]))
ParseResponse_NoCheck(response) ==
    OkResp(SubSeq(response, HeadersEnd(response) + 1, Len(response)),
           SubSeq(response, 1, HeadersEnd(response)))

ParseResponse(response) ==
    IF response = <<>> THEN OkResp(<<>>, NoHeaders)
    ELSE IF HeadersEnd(response) = 0 THEN OkResp(<<>>, NoHeaders)
    ELSE OkResp(SubSeq(response, HeadersEnd(response) + 1, Len(response)),
                SubSeq(response, 1, HeadersEnd(response)))

\* Result of make_range_request_with_progress for one exchange.
MakeRangeRequest(x) == IF x.ok THEN ParseResponse(x.response) ELSE ErrResp

\* ----------------------------------------------------------- helpers
Range(s) == {s[k] : k \in 1 .. Len(s)}

IdleWorker == [st |-> "idle", chunk_id |-> 0, retry_attempts |-> 0,
               response |-> <<>>, data |-> <<>>, headers |-> NoHeaders,
               calls |-> 0, errBase |-> 0]

Terminal == {"Success", "EOFSignaled", "Failed"}

\* handle.join() returns: the thread returned or panicked
Joinable == Terminal \cup {"Panicked"}

\* the process lives until main returns or panics
Alive == pc \notin {"done", "aborted"}

\* number of ErrorLog entries of a chunk id
RECURSIVE ErrCount(_, _)
ErrCount(log, id) ==
    IF log = <<>> THEN 0
    ELSE (IF Head(log)[1] = id THEN 1 ELSE 0) + ErrCount(Tail(log), id)

\* Failures already drawn: logged, or drawn and about to be logged.
Faults == Len(download_errors)
          + Cardinality({w \in Slots : worker[w].st \in {"lock_errors", "log_error"}})

\* The four Mutexes of the aggregator state (main.rs:113-116).
Mutexes == {"total_bytes", "chunks", "processed_chunks", "download_errors"}

\* guard dropped: end of the statement or of the block that took it
Release_Keep(m, w) == held

Release(m, w) == [held EXCEPT ![m] = @ \ {w}]

\* Mutex::lock returns once no other thread holds the guard
Free(m) == held[m] = {}

\* Sha256 is opaque and taken to be collision free: a digest is the data it
\* was computed from, printed in lower case by format!("{:x}").
Sha256Hex(data) == [of |-> data, upper |-> FALSE]

\* expected_hash.to_lowercase()
ToLowercase(hash) == [hash EXCEPT !.upper = FALSE]

\* values of --verify explored: absent, or the digest of a one-chunk
\* resource in lower or upper case
VerifyArgs == {{}} \cup {{[of |-> Body(0, ChunkSize), upper |-> u]} : u \in BOOLEAN}

\* all_chunks.sort_by_key(|chunk| chunk.id): stable insertion sort
RECURSIVE InsertByKey(_, _)
InsertByKey(sorted, c) ==
    IF sorted = <<>> THEN <<c>>
    ELSE IF Head(sorted).id <= c.id
         THEN <<Head(sorted)>> \o InsertByKey(Tail(sorted), c)
         ELSE <<c>> \o sorted

SortByKey_None(s) == s

RECURSIVE SortByKey(_)
SortByKey(s) ==
    IF s = <<>> THEN <<>>
    ELSE InsertByKey(SortByKey(SubSeq(s, 1, Len(s) - 1)), s[Len(s)])

\* for chunk in all_chunks { all_data.extend_from_slice(&chunk.data) }
RECURSIVE Concatenate(_)
Concatenate(s) ==
    IF s = <<>> THEN <<>> ELSE Head(s).data \o Concatenate(Tail(s))

\* ----------------------------------------------------------- initial state
InitState(concs, servers, budget) ==
    /\ concurrent_downloads \in concs
    /\ server \in servers
    /\ err_budget = budget
    /\ batch_rounds = 0
    /\ chunks = <<>>
    /\ processed_chunks = {}
    /\ total_bytes = 0
    /\ download_errors = <<>>
    /\ next_chunk = 0
    /\ eof_reached = FALSE
    /\ retry_count = 0
    /\ batch_eof = FALSE
    /\ handles = <<>>
    /\ pc = "while"
    /\ idx = 0
    /\ missing_chunks = {}
    /\ worker = [w \in Slots |-> IdleWorker]
    /\ all_chunks = <<>>
    /\ all_data = <<>>
    /\ held = [m \in Mutexes |-> {}]
    /\ poisoned = {}
    /\ panics = 0
    /\ verify_hash = {}
    /\ output_file = FALSE
    /\ checksum = "absent"
    /\ saved = <<>>
    /\ result = "running"

\* Peers explored: one that may answer anything, and well-behaved ones
\* whose resource has K chunks.
InitWith(modes) ==
    InitState(1 .. MaxConc,
              {[mode |-> m, K |-> k] : m \in modes, k \in 0 .. (MaxCursor - 1)}
                 \ {[mode |-> "any", K |-> k] : k \in 1 .. MaxCursor},
              MaxErrors)

Init == InitWith({"clean", "any"})

\* Runs against a peer that answers data or a failure below chunk K and the
\* EOF marker or a failure from K on, with enough failures to exhaust the
\* batch retries. K is small enough for the run to meet EOF below MaxCursor
\* after as many forced advances as the failures allow.
ForcedAdvances == ForceErrors \div ((max_retries + 1) * (max_chunk_retries + 1))

ForceInit ==
    /\ InitState(1 .. ForceConc,
                 {[mode |-> "eof_from", K |-> k] : k \in 0 .. MaxCursor},
                 ForceErrors)
    /\ concurrent_downloads * (server.K \div concurrent_downloads)
          + concurrent_downloads * ForcedAdvances < MaxCursor

\* ----------------------------------------------------------- main
\* while !eof_reached && retry_count <= max_retries
LoopContinues_IgnoreEof(eof, rc) == rc <= max_retries

LoopContinues(eof, rc) == ~eof /\ rc <= max_retries

\* processed_chunks.lock().unwrap().contains(&chunk_id)
AlreadyProcessed_Never(id) == FALSE

AlreadyProcessed_NextId(id) == (id + 1) \in processed_chunks

AlreadyProcessed(id) == id \in processed_chunks

\* next_chunk += concurrent_downloads
Advance_One(cur) == cur + 1

Advance(cur) == cur + concurrent_downloads

\* retry_count += 1; if retry_count > max_retries { next_chunk += ..; retry_count = 0 }
AfterMissing_Advance(rc, cur) ==
    IF rc + 1 > max_retries
    THEN [retry_count |-> 0, next_chunk |-> Advance(cur)]
    ELSE [retry_count |-> rc + 1, next_chunk |-> Advance(cur)]

AfterMissing_Early(rc, cur) ==
    IF rc + 1 >= max_retries
    THEN [retry_count |-> 0, next_chunk |-> Advance(cur)]
    ELSE [retry_count |-> rc + 1, next_chunk |-> cur]

AfterMissing_NoReset(rc, cur) ==
    IF rc + 1 > max_retries
    THEN [retry_count |-> rc + 1, next_chunk |-> Advance(cur)]
    ELSE [retry_count |-> rc + 1, next_chunk |-> cur]

AfterMissing(rc, cur) ==
    IF rc + 1 > max_retries
    THEN [retry_count |-> 0, next_chunk |-> Advance(cur)]
    ELSE [retry_count |-> rc + 1, next_chunk |-> cur]

\* while !eof_reached && retry_count <= max_retries { let mut handles = vec![];
While ==
    /\ pc = "while"
    /\ IF LoopContinues(eof_reached, retry_count)
       THEN /\ next_chunk < MaxCursor
            /\ pc' = "spawn"
            /\ idx' = 0
            /\ handles' = <<>>
            /\ worker' = [w \in Slots |-> IdleWorker]
            /\ batch_rounds' = batch_rounds + 1
       ELSE /\ pc' = "snapshot"
            /\ UNCHANGED <<idx, handles, worker, batch_rounds>>
    /\ UNCHANGED <<concurrent_downloads, server, chunks, processed_chunks,
                   total_bytes, download_errors, next_chunk, eof_reached,
                   retry_count, batch_eof, missing_chunks, all_chunks, all_data>>
    /\ UNCHANGED <<threadEnv, outcome>>

\* one iteration of: for i in 0..concurrent_downloads { ... }
SpawnNext ==
    /\ pc = "spawn"
    /\ IF idx < concurrent_downloads
       THEN /\ Free("processed_chunks")
            /\ "processed_chunks" \notin poisoned
            /\ idx' = idx + 1
            /\ pc' = "spawn"
            /\ batch_eof' = batch_eof
            /\ IF AlreadyProcessed(next_chunk + idx)
               THEN UNCHANGED <<handles, worker>>
               ELSE /\ handles' = Append(handles, idx)
                    /\ worker' = [worker EXCEPT ![idx] =
                          [IdleWorker EXCEPT
                              !.st = "request",
                              !.chunk_id = next_chunk + idx,
                              !.errBase = ErrCount(download_errors, next_chunk + idx)]]
       ELSE /\ pc' = "join"
            /\ idx' = 1
            /\ batch_eof' = FALSE
            /\ UNCHANGED <<handles, worker>>
    /\ UNCHANGED <<concurrent_downloads, server, chunks, processed_chunks,
                   total_bytes, download_errors, next_chunk, eof_reached,
                   retry_count, missing_chunks, all_chunks, all_data>>
    /\ UNCHANGED <<threadEnv, outcome, batch_rounds>>

\* one iteration of: for handle in handles { match handle.join() { ... } }
JoinNext ==
    /\ pc = "join"
    /\ IF idx <= Len(handles)
       THEN /\ worker[handles[idx]].st \in Joinable
            /\ IF worker[handles[idx]].st = "EOFSignaled"
               THEN /\ batch_eof' = TRUE
                    /\ eof_reached' = TRUE
                    /\ pc' = "policy"
                    /\ idx' = idx
               ELSE /\ idx' = idx + 1
                    /\ pc' = "join"
                    /\ UNCHANGED <<batch_eof, eof_reached>>
       ELSE /\ pc' = "policy"
            /\ UNCHANGED <<idx, batch_eof, eof_reached>>
    /\ UNCHANGED <<concurrent_downloads, server, chunks, processed_chunks,
                   total_bytes, download_errors, next_chunk, retry_count,
                   handles, missing_chunks, worker, all_chunks, all_data>>
    /\ UNCHANGED <<threadEnv, outcome, batch_rounds>>

expected_chunks == next_chunk .. (next_chunk + concurrent_downloads - 1)

\* if !batch_eof { ... }
Policy ==
    /\ pc = "policy"
    /\ pc' = "while"
    /\ IF ~batch_eof
       THEN LET missing == expected_chunks \ processed_chunks IN
            /\ Free("processed_chunks")
            /\ "processed_chunks" \notin poisoned
            /\ missing_chunks' = missing
            /\ IF missing # {}
               THEN /\ retry_count' = AfterMissing(retry_count, next_chunk).retry_count
                    /\ next_chunk' = AfterMissing(retry_count, next_chunk).next_chunk
               ELSE /\ next_chunk' = Advance(next_chunk)
                    /\ retry_count' = 0
       ELSE UNCHANGED <<missing_chunks, next_chunk, retry_count>>
    /\ batch_rounds' = IF next_chunk' = next_chunk THEN batch_rounds ELSE 0
    /\ UNCHANGED <<concurrent_downloads, server, chunks, processed_chunks,
                   total_bytes, download_errors, eof_reached, batch_eof,
                   handles, idx, worker, all_chunks, all_data>>
    /\ UNCHANGED <<threadEnv, outcome>>

\* let mut all_chunks = chunks.lock().unwrap().clone(); sort; concatenate
Snapshot ==
    /\ pc = "snapshot"
    /\ Free("chunks")
    /\ "chunks" \notin poisoned
    /\ all_chunks' = SortByKey(chunks)
    /\ all_data' = Concatenate(all_chunks')
    /\ pc' = "assembled"
    /\ UNCHANGED <<concurrent_downloads, server, chunks, processed_chunks,
                   total_bytes, download_errors, next_chunk, eof_reached,
                   retry_count, batch_eof, handles, idx, missing_chunks, worker>>
    /\ UNCHANGED <<threadEnv, outcome, batch_rounds>>

schedVars == <<concurrent_downloads, server, chunks, processed_chunks,
               total_bytes, download_errors, next_chunk, eof_reached,
               retry_count, batch_eof, handles, idx, missing_chunks, worker,
               all_chunks, all_data, batch_rounds>>

\* if let Some(expected_hash) = verify_hash { if expected_hash.to_lowercase()
\* == calculated_hash { PASSED } else { FAILED; return Err(..) } }
\* The values of --verify and --output are drawn here, where main first
\* reads one of them.
Verify ==
    /\ pc = "assembled"
    /\ output_file' \in BOOLEAN
    /\ \E arg \in VerifyArgs :
          /\ verify_hash' = arg
          /\ IF arg = {} THEN /\ checksum' = "absent"
                              /\ pc' = "save"
                              /\ result' = result
             ELSE IF \E h \in arg : ToLowercase(h) = Sha256Hex(all_data)
             THEN /\ checksum' = "passed"
                  /\ pc' = "save"
                  /\ result' = result
             ELSE /\ checksum' = "failed"
                  /\ pc' = "done"
                  /\ result' = "Err"
    /\ saved' = saved
    /\ UNCHANGED <<schedVars, threadEnv>>

\* if let Some(path) = output_file { File::create; write_all(&all_data); flush }
Save ==
    /\ pc = "save"
    /\ saved' = IF output_file THEN <<all_data>> ELSE saved
    /\ pc' = "report"
    /\ UNCHANGED <<verify_hash, output_file, checksum, result>>
    /\ UNCHANGED <<schedVars, threadEnv>>

\* let errors = download_errors.lock().unwrap(); ...; Ok(())
\* main returns: the process exits and every thread still running dies
Exit ==
    /\ pc = "report"
    /\ Free("download_errors")
    /\ "download_errors" \notin poisoned
    /\ pc' = "done"
    /\ result' = "Ok"
    /\ UNCHANGED <<verify_hash, output_file, checksum, saved>>
    /\ UNCHANGED <<schedVars, threadEnv>>

\* ----------------------------------------------------------- worker closure
mainVars == <<concurrent_downloads, server, next_chunk, eof_reached, retry_count,
              batch_eof, handles, pc, idx, missing_chunks, all_chunks, all_data,
              poisoned, panics, err_budget, batch_rounds, outcome>>

\* the Mutex a worker is about to lock, by position
WaitsFor(st) ==
    CASE st = "lock_total" -> "total_bytes"
      [] st = "lock_chunks" -> "chunks"
      [] st = "lock_processed" -> "processed_chunks"
      [] st = "lock_errors" -> "download_errors"
      [] OTHER -> "none"

\* the position of a worker inside the critical section of a Mutex
SectionOf(m) ==
    CASE m = "total_bytes" -> "add_total"
      [] m = "chunks" -> "push_chunk"
      [] m = "processed_chunks" -> "insert_processed"
      [] m = "download_errors" -> "log_error"

\* if headers.contains("400 Invalid range:") || data.is_empty()
IsEof_EmptyOnly(data, headers) == data = <<>>

IsEof_MarkerOnly(data, headers) == ContainsMarker(headers)

IsEof(data, headers) == ContainsMarker(headers) \/ data = <<>>

\* if retry_attempts <= max_chunk_retries (after retry_attempts += 1)
MayRetry_Strict(attempts) == attempts < max_chunk_retries

MayRetry(attempts) == attempts <= max_chunk_retries

\* (chunk_id, error_msg.clone())
ErrorEntry_Slot(w) == <<w, "error">>

ErrorEntry(w) == <<worker[w].chunk_id, "error">>

\* errors.push(entry)
PushError_Front(log, entry) == <<entry>> \o log

PushError(log, entry) == Append(log, entry)

\* match make_range_request_with_progress(...) { Ok(..) => .., Err(e) => .. }
Request(w) ==
    /\ Alive
    /\ worker[w].st = "request"
    /\ \E x \in Exchanges(server, worker[w].chunk_id) :
       LET r == MakeRangeRequest(x) IN
          /\ ~r.ok => Faults < err_budget
          /\ worker' = [worker EXCEPT ![w] =
                [@ EXCEPT !.calls = @ + 1,
                          !.response = x.response,
                          !.data = r.data,
                          !.headers = r.headers,
                          !.st = IF ~r.ok THEN "lock_errors"
                                 ELSE IF IsEof(r.data, r.headers)
                                      THEN "EOFSignaled"
                                      ELSE "lock_total"]]
    /\ UNCHANGED <<chunks, processed_chunks, total_bytes, download_errors, held>>
    /\ UNCHANGED mainVars

\* <mutex>.lock().unwrap() of lines 164, 169, 174 and 184: the worker blocks
\* until the Mutex is free and then holds its guard
Lock(w) ==
    /\ Alive
    /\ WaitsFor(worker[w].st) \in Mutexes
    /\ LET m == WaitsFor(worker[w].st) IN
          /\ Free(m)
          /\ m \notin poisoned
          /\ held' = [held EXCEPT ![m] = @ \cup {w}]
          /\ worker' = [worker EXCEPT ![w].st = SectionOf(m)]
    /\ UNCHANGED <<chunks, processed_chunks, total_bytes, download_errors>>
    /\ UNCHANGED mainVars

\* { let mut total = total_bytes_clone.lock().unwrap(); *total += data.len(); }
AddTotal(w) ==
    /\ Alive
    /\ worker[w].st = "add_total"
    /\ total_bytes' = total_bytes + Len(worker[w].data)
    /\ worker' = [worker EXCEPT ![w].st = "lock_chunks"]
    /\ held' = Release("total_bytes", w)
    /\ UNCHANGED <<chunks, processed_chunks, download_errors>>
    /\ UNCHANGED mainVars

\* chunks_clone.lock().unwrap().push(Chunk { id: chunk_id, data });
PushChunk(w) ==
    /\ Alive
    /\ worker[w].st = "push_chunk"
    /\ chunks' = Append(chunks, [id |-> worker[w].chunk_id, data |-> worker[w].data])
    /\ worker' = [worker EXCEPT ![w].st = "lock_processed"]
    /\ held' = Release("chunks", w)
    /\ UNCHANGED <<processed_chunks, total_bytes, download_errors>>
    /\ UNCHANGED mainVars

\* processed_clone.lock().unwrap().insert(chunk_id); return None;
InsertProcessed(w) ==
    /\ Alive
    /\ worker[w].st = "insert_processed"
    /\ processed_chunks' = processed_chunks \cup {worker[w].chunk_id}
    /\ worker' = [worker EXCEPT ![w].st = "Success"]
    /\ held' = Release("processed_chunks", w)
    /\ UNCHANGED <<chunks, total_bytes, download_errors>>
    /\ UNCHANGED mainVars

\* errors_clone.lock().unwrap().push((chunk_id, error_msg)); retry_attempts += 1;
LogError(w) ==
    /\ Alive
    /\ worker[w].st = "log_error"
    /\ download_errors' = PushError(download_errors, ErrorEntry(w))
    /\ worker' = [worker EXCEPT ![w] =
          [@ EXCEPT !.retry_attempts = @ + 1,
                    !.st = IF MayRetry(worker[w].retry_attempts + 1)
                           THEN "sleep" ELSE "Failed"]]
    /\ held' = Release("download_errors", w)
    /\ UNCHANGED <<chunks, processed_chunks, total_bytes>>
    /\ UNCHANGED mainVars

\* thread::sleep(backoff); continue;
Sleep(w) ==
    /\ Alive
    /\ worker[w].st = "sleep"
    /\ worker' = [worker EXCEPT ![w].st = "request"]
    /\ UNCHANGED <<chunks, processed_chunks, total_bytes, download_errors, held>>
    /\ UNCHANGED mainVars

\* ----------------------------------------------------------- specification
Main == While \/ SpawnNext \/ JoinNext \/ Policy \/ Snapshot \/ Verify \/ Save
        \/ Exit

Worker(w) == Request(w) \/ Lock(w) \/ AddTotal(w) \/ PushChunk(w)
             \/ InsertProcessed(w) \/ LogError(w) \/ Sleep(w)

Next == Main \/ \E w \in Slots : Worker(w)

Spec == Init /\ [][Next]_vars

\* Threads are scheduled fairly and every range request returns (the
\* connect, read and write timeouts bound each exchange).
Fairness == WF_vars(Main) /\ \A w \in Slots : WF_vars(Worker(w))

FairSpec == Init /\ [][Next]_vars /\ Fairness

ForceSpec == ForceInit /\ [][Next]_vars

\* ----------------------------------------------------------- panics
\* A worker thread fails unexpectedly (a panic) at any point before it
\* returns. A guard it holds is dropped while unwinding, which poisons the
\* Mutex.
WorkerPanic(w) ==
    /\ Alive
    /\ panics < MaxPanics
    /\ worker[w].st \notin Joinable \cup {"idle"}
    /\ panics' = panics + 1
    /\ worker' = [worker EXCEPT ![w].st = "Panicked"]
    /\ held' = [m \in Mutexes |-> held[m] \ {w}]
    /\ poisoned' = poisoned \cup {m \in Mutexes : w \in held[m]}
    /\ UNCHANGED <<chunks, processed_chunks, total_bytes, download_errors>>
    /\ UNCHANGED <<concurrent_downloads, server, next_chunk, eof_reached,
                   retry_count, batch_eof, handles, pc, idx, missing_chunks,
                   all_chunks, all_data, err_budget, batch_rounds, outcome>>

\* <mutex>.lock().unwrap() in a worker, on a poisoned Mutex: lock returns
\* Err(PoisonError) and unwrap panics
PoisonPanic(w) ==
    /\ Alive
    /\ WaitsFor(worker[w].st) \in poisoned
    /\ Free(WaitsFor(worker[w].st))
    /\ worker' = [worker EXCEPT ![w].st = "Panicked"]
    /\ UNCHANGED <<chunks, processed_chunks, total_bytes, download_errors, held>>
    /\ UNCHANGED mainVars

\* the Mutex main locks at its position, if any (lines 133, 228, 253, 292)
MainLocks ==
    CASE pc = "spawn" /\ idx < concurrent_downloads -> "processed_chunks"
      [] pc = "policy" /\ ~batch_eof -> "processed_chunks"
      [] pc = "snapshot" -> "chunks"
      [] pc = "report" -> "download_errors"
      [] OTHER -> "none"

\* <mutex>.lock().unwrap() in main, on a poisoned Mutex: main panics and the
\* process ends
MainPanic ==
    /\ MainLocks \in poisoned
    /\ Free(MainLocks)
    /\ pc' = "aborted"
    /\ result' = "Panicked"
    /\ UNCHANGED <<verify_hash, output_file, checksum, saved>>
    /\ UNCHANGED <<schedVars, threadEnv>>

PanicNext == Next \/ MainPanic
             \/ \E w \in Slots : WorkerPanic(w) \/ PoisonPanic(w)

\* against a peer whose resource has MaxCursor - 1 chunks
PanicInit ==
    InitState(1 .. MaxConc, {[mode |-> "eof_from", K |-> MaxCursor - 1]}, PanicErrors)

PanicSpec == PanicInit /\ [][PanicNext]_vars

FairForceSpec == ForceInit /\ [][Next]_vars /\ Fairness

\* ----------------------------------------------------------- properties
Spawned == {handles[k] : k \in 1 .. Len(handles)}

AfterSnapshot == {"assembled", "save", "report", "done"}

PastJoin == {"policy", "while", "snapshot"} \cup AfterSnapshot

Fetched == {"lock_total", "add_total", "lock_chunks", "push_chunk",
            "lock_processed", "insert_processed", "Success"}

ChunkOf(w) == [id |-> worker[w].chunk_id, data |-> worker[w].data]

StoredFor(id) == {k \in 1 .. Len(chunks) : chunks[k].id = id}

\* C1: once main has left the join loop of a round (to apply the
\* missing-chunk policy, start another round or take the snapshot), every
\* worker spawned in that round is in a terminal state.
C1_RoundBarrier ==
    pc \in PastJoin => \A w \in Spawned : worker[w].st \in Terminal

\* C2: after the snapshot of a run whose last round had a worker report
\* EOF, every worker of that round that fetched non-empty data has its chunk
\* in the snapshot.
C2_NoLostSibling ==
    (pc \in AfterSnapshot
        /\ \E e \in Spawned : worker[e].st = "EOFSignaled")
    => \A w \in Spawned :
          worker[w].st \in Fetched => ChunkOf(w) \in Range(all_chunks)

\* C3: the chunk store never holds two chunks with the same chunk id.
C3_AtMostOnce ==
    \A a, b \in 1 .. Len(chunks) : chunks[a].id = chunks[b].id => a = b

C3_Witness ==
    /\ retry_count > 0
    /\ Len(chunks) >= 2
    /\ \E w \in Spawned : /\ worker[w].st = "Success"
                          /\ worker[w].chunk_id \in missing_chunks

\* C4: a step that spawns a worker never spawns it for a chunk id that is
\* in ProcessedSet, and no running worker that has not inserted its chunk
\* yet works on a processed id.
C4_IdempotentSkip ==
    [][/\ Len(handles') > Len(handles)
          => worker'[handles'[Len(handles')]].chunk_id \notin processed_chunks
       /\ \A w \in Slots :
             (worker[w].st = "idle" /\ worker'[w].st # "idle")
             => worker'[w].chunk_id \notin processed_chunks]_vars

C4_Witness ==
    /\ pc = "spawn"
    /\ idx > 0
    /\ retry_count > 0
    /\ (next_chunk + idx - 1) \in processed_chunks
    /\ worker[idx - 1].st = "idle"

\* C5: a worker never makes more than max_chunk_retries + 1 Transport
\* calls, and one that ended in Failed made exactly that many, all failed,
\* logged one entry for its chunk id per call, stored no chunk and did not
\* mark the id processed.
C5_RetryBound ==
    \A w \in Slots :
        /\ worker[w].calls <= max_chunk_retries + 1
        /\ worker[w].st \in {"request", "sleep"}
           => worker[w].calls <= max_chunk_retries
        /\ worker[w].st = "Failed"
           => /\ worker[w].calls = max_chunk_retries + 1
              /\ worker[w].retry_attempts = worker[w].calls
              /\ ErrCount(download_errors, worker[w].chunk_id)
                    = worker[w].errBase + max_chunk_retries + 1
              /\ StoredFor(worker[w].chunk_id) = {}
              /\ worker[w].chunk_id \notin processed_chunks

C5_Witness ==
    \E w \in Spawned : /\ worker[w].st = "Failed"
                       /\ worker[w].calls = 3

\* C6: a worker that ended in Success after k failed Transport calls has
\* k <= max_chunk_retries, appended exactly k ErrorLog entries for its
\* chunk id, and the store holds exactly one chunk for that id, with the
\* data it fetched.
C6_WorkerRecovery ==
    \A w \in Slots :
        worker[w].st = "Success"
        => /\ worker[w].retry_attempts = worker[w].calls - 1
           /\ worker[w].retry_attempts \in 0 .. max_chunk_retries
           /\ ErrCount(download_errors, worker[w].chunk_id)
                 = worker[w].errBase + worker[w].retry_attempts
           /\ Cardinality(StoredFor(worker[w].chunk_id)) = 1
           /\ \A k \in StoredFor(worker[w].chunk_id) : chunks[k] = ChunkOf(w)
           /\ worker[w].data # <<>>

C6_Witness ==
    \E w \in Spawned : /\ worker[w].st = "Success"
                       /\ worker[w].retry_attempts = 2
                       /\ worker[w].chunk_id = 3
                       /\ ErrCount(download_errors, 3) = 2

\* C7: when the spawn loop of a batch-retry round has finished
\* (batch_retry_count > 0), the cursor is still that of the batch whose
\* missing ids were computed, and the workers spawned are exactly one per
\* missing id.
C7_BatchRecovery ==
    (pc = "join" /\ retry_count > 0)
    => /\ missing_chunks # {}
       /\ missing_chunks \subseteq expected_chunks
       /\ {worker[w].chunk_id : w \in Spawned} = missing_chunks
       /\ Len(handles) = Cardinality(missing_chunks)
       /\ \A w \in Slots \ Spawned : worker[w].st = "idle"

C7_Witness ==
    /\ pc = "join"
    /\ retry_count > 0
    /\ handles # <<>>
    /\ Len(handles) < concurrent_downloads

\* C8: with a server that returns data for every id < K, the EOF marker
\* for every id >= K and never fails, the run ends with global EOF, the
\* output is the bytes of chunks 0..K-1 in order, and the ErrorLog is empty.
ExpectedClean == [k \in 1 .. (server.K * ChunkSize) |-> k - 1]

C8_CleanRun ==
    (server.mode = "clean")
    => <>[](/\ pc = "done"
            /\ eof_reached
            /\ all_data = ExpectedClean
            /\ download_errors = <<>>)

C8_Witness ==
    /\ pc = "done"
    /\ server.mode = "clean"
    /\ server.K = 2
    /\ concurrent_downloads = 2
    /\ Len(all_data) = 2 * ChunkSize
    /\ download_errors = <<>>

\* C9: the assembled output holds the bytes of the chunks of the snapshot
\* in strictly ascending chunk-id order and nothing else: the snapshot is
\* the store as it was when it was taken, reordered by ascending id; the
\* output length is the sum of the chunk lengths; the bytes ascend.
RECURSIVE SumLen(_)
SumLen(s) == IF s = <<>> THEN 0 ELSE Len(Head(s).data) + SumLen(Tail(s))

C9_Assembly ==
    pc \in AfterSnapshot
    => /\ Len(all_chunks) <= Len(chunks)
       /\ Range(all_chunks) = Range(SubSeq(chunks, 1, Len(all_chunks)))
       /\ \A a, b \in 1 .. Len(all_chunks) :
             a < b => all_chunks[a].id < all_chunks[b].id
       /\ Len(all_data) = SumLen(all_chunks)
       /\ Range(all_data) = UNION {Range(c.data) : c \in Range(all_chunks)}
       /\ \A a, b \in 1 .. Len(all_data) : a < b => all_data[a] < all_data[b]

C9_Witness ==
    /\ pc \in AfterSnapshot
    /\ Len(all_chunks) >= 2
    /\ chunks[1].id > chunks[2].id
    /\ Len(all_data) > Len(all_chunks)

\* C10: leaving the join loop of a round in which a worker has reported
\* EOF sets global_eof; a step that ends with global_eof set leaves the
\* cursor and batch_retry_count alone; once global_eof is set it stays set
\* and no worker is spawned; every step keeps the chunks already stored.
C10_EofStopsScheduling ==
    [][/\ (pc = "join" /\ pc' = "policy"
              /\ \E w \in Spawned : worker[w].st = "EOFSignaled")
          => eof_reached'
       /\ eof_reached' => (next_chunk' = next_chunk /\ retry_count' = retry_count)
       /\ eof_reached => (eof_reached' /\ handles' = handles /\ pc' # "spawn"
                          /\ \A w \in Slots : worker[w].st = "idle"
                                              => worker'[w].st = "idle")
       /\ Len(chunks') >= Len(chunks)
       /\ \A k \in 1 .. Len(chunks) : chunks'[k] = chunks[k]]_vars

C10_Witness ==
    /\ pc = "snapshot"
    /\ eof_reached
    /\ next_chunk > 0
    /\ chunks # <<>>
    /\ \E w \in Spawned : /\ worker[w].st = "EOFSignaled"
                          /\ worker[w].data = <<>>
                          /\ ~ContainsMarker(worker[w].headers)
\* C11: when the expected digest differs from the digest of the assembled
\* bytes, main returns an error and the assembled output still reaches the
\* persistence step: with --output given, the file holds the assembled
\* bytes at the end of the run, as it does when the digest matches.
C11_MismatchKeepsOutput ==
    (pc = "done" /\ checksum = "failed")
    => /\ result = "Err"
       /\ output_file => saved = <<all_data>>
\* C12: a worker that fails unexpectedly is contained: main never aborts,
\* no other worker fails because of it (every worker panic is an injected
\* failure), and when the round ends without EOF the id of the failed
\* worker is among the missing ids, so that the batch is retried or, with
\* the retries exhausted, left behind.
C12_AbortContained ==
    [][/\ pc' # "aborted"
       /\ \A w \in Slots :
             (worker[w].st # "Panicked" /\ worker'[w].st = "Panicked")
             => panics' = panics + 1
       /\ (pc = "policy" /\ pc' = "while" /\ ~batch_eof)
          => \A w \in Spawned :
                worker[w].st = "Panicked"
                => worker[w].chunk_id \in missing_chunks']_vars
\* C13: a round without EOF that leaves an id of the batch missing keeps
\* the cursor unless it is the (max_batch_retries + 1)-th consecutive round
\* of the batch; that round advances the cursor by concurrency and resets
\* batch_retry_count. The cursor never goes back and no worker is spawned
\* for an id below it, so the ids left behind are never fetched again.
C13_ForceAdvance ==
    [][/\ (pc = "policy" /\ pc' = "while" /\ ~batch_eof
              /\ expected_chunks \ processed_chunks # {})
          => IF batch_rounds = max_retries + 1
             THEN /\ next_chunk' = next_chunk + concurrent_downloads
                  /\ retry_count' = 0
             ELSE /\ batch_rounds < max_retries + 1
                  /\ next_chunk' = next_chunk
                  /\ retry_count' = batch_rounds
       /\ Len(handles') > Len(handles)
          => worker'[handles'[Len(handles')]].chunk_id >= next_chunk
       /\ next_chunk' >= next_chunk]_vars

C13_Witness ==
    /\ pc = "join"
    /\ concurrent_downloads = 2
    /\ next_chunk = 2
    /\ missing_chunks = {1}
    /\ 1 \notin processed_chunks
    /\ Len(handles) = 2
    /\ ErrCount(download_errors, 1) = 12
\* C14: every time main evaluates the loop condition, batch_retry_count is
\* at most max_batch_retries and the loop is left exactly when global_eof
\* is set; global_eof is set only on joining a worker that reported EOF.
C14_TerminationOnlyByEof ==
    [][/\ (pc = "while" /\ pc' # "while")
          => /\ retry_count <= max_retries
             /\ pc' = "snapshot" <=> eof_reached
             /\ pc' = "spawn" <=> ~eof_reached
       /\ (~eof_reached /\ eof_reached')
          => \E w \in Spawned : worker[w].st = "EOFSignaled"]_vars

C14_Witness ==
    /\ pc = "spawn"
    /\ ~eof_reached
    /\ batch_rounds = 1
    /\ retry_count = 0
    /\ \E id \in 0 .. (next_chunk - 1) : id \notin processed_chunks

\* C15: against a peer that answers the EOF marker or a failure from chunk
\* K on, with finitely many failures, every fair run ends: main returns
\* with global_eof set and the cursor on a batch that holds an id >= K.
C15_EventualTermination ==
    <>[](/\ pc = "done"
         /\ eof_reached
         /\ next_chunk + concurrent_downloads - 1 >= server.K)

C15_Witness ==
    /\ pc = "done"
    /\ server.K = 1
    /\ concurrent_downloads = 1
    /\ processed_chunks = {}
    /\ next_chunk = 1
    /\ ErrCount(download_errors, 0) = 12

\* C16: the cursor is always a multiple of concurrency; a step changes it
\* only by adding concurrency, only in the policy step of a round without
\* EOF in which no expected id is missing or the batch has had its
\* max_batch_retries + 1 rounds, and leaves batch_retry_count at 0.
C16_CursorDiscipline ==
    [][/\ next_chunk % concurrent_downloads = 0
       /\ next_chunk' % concurrent_downloads = 0
       /\ next_chunk' # next_chunk
          => /\ next_chunk' = next_chunk + concurrent_downloads
             /\ pc = "policy"
             /\ ~batch_eof
             /\ \A w \in Spawned : worker[w].st \in Terminal \ {"EOFSignaled"}
             /\ \/ expected_chunks \subseteq processed_chunks
                \/ batch_rounds = max_retries + 1
             /\ retry_count' = 0]_vars

C16_Witness ==
    /\ pc = "while"
    /\ concurrent_downloads = 2
    /\ next_chunk = 2
    /\ retry_count = 0
    /\ batch_rounds = 0
\* C17: every step leaves the ErrorLog as a prefix of the new ErrorLog and
\* appends at most one entry; an entry is appended exactly by the step in
\* which a worker logs its failed Transport call, and carries that
\* worker's chunk id; a worker has logged one entry per failed call.
LoggedAll(w) ==
    worker[w].st \notin {"idle", "Panicked"}
    => ErrCount(download_errors, worker[w].chunk_id)
          = worker[w].errBase + worker[w].retry_attempts

C17_ErrorLogAppendOnly ==
    [][/\ Len(download_errors') >= Len(download_errors)
       /\ Len(download_errors') <= Len(download_errors) + 1
       /\ SubSeq(download_errors', 1, Len(download_errors)) = download_errors
       /\ \A w \in Slots :
             (worker[w].st = "log_error" /\ worker'[w].st # "log_error")
             => /\ Len(download_errors') = Len(download_errors) + 1
                /\ download_errors'[Len(download_errors')][1] = worker[w].chunk_id
       /\ Len(download_errors') > Len(download_errors)
          => \E w \in Slots : /\ worker[w].st = "log_error"
                               /\ worker'[w].st \in {"sleep", "Failed"}
                               /\ worker'[w].retry_attempts
                                     = worker[w].retry_attempts + 1
       /\ \A w \in Slots : LoggedAll(w)]_vars

C17_Witness ==
    /\ pc = "spawn"
    /\ next_chunk > 0
    /\ batch_rounds = 1
    /\ Len(download_errors) >= 12
    /\ \E k \in 1 .. Len(download_errors) : download_errors[k][1] < next_chunk

\* C18: the step in which a worker gets a response that indicates EOF
\* (marker in the header block, or empty body) moves it to EOFSignaled and
\* leaves the chunk store, ProcessedSet, ErrorLog and total-bytes counter
\* as they were; the id of a worker in EOFSignaled is not in ProcessedSet
\* and has no chunk, and no stored chunk is empty.
C18_EofNoAggregatorEffect ==
    [][/\ \A w \in Slots :
             (/\ worker'[w].calls = worker[w].calls + 1
              /\ worker'[w].st # "lock_errors"
              /\ \/ ContainsMarker(worker'[w].headers)
                 \/ worker'[w].data = <<>>)
             => /\ worker'[w].st = "EOFSignaled"
                /\ UNCHANGED <<chunks, processed_chunks, download_errors,
                               total_bytes, held>>
       /\ \A w \in Slots :
             worker'[w].st = "EOFSignaled"
             => /\ worker'[w].chunk_id \notin processed_chunks'
                /\ \A k \in 1 .. Len(chunks') : chunks'[k].id # worker'[w].chunk_id
       /\ \A k \in 1 .. Len(chunks') : chunks'[k].data # <<>>]_vars

C18_Witness ==
    /\ chunks # <<>>
    /\ total_bytes > 0
    /\ \E w \in Spawned : /\ worker[w].st = "EOFSignaled"
                          /\ worker[w].data = <<Junk>>
                          /\ ContainsMarker(worker[w].headers)

\* C19: a non-failing exchange whose response has no header/body
\* delimiter (or no bytes) gives an empty body and empty header text; the
\* worker goes to EOFSignaled in that step without touching the ErrorLog
\* or its retry counter, never runs again, and main sets global_eof when
\* it leaves the join loop of that round.
NoDelimiter(response) ==
    ~\E i \in 1 .. Len(response) :
        /\ i + 3 <= Len(response)
        /\ SubSeq(response, i, i + 3) = Delimiter

C19_ProtocolErrorIsEof ==
    [][/\ \A w \in Slots :
             (/\ worker'[w].calls = worker[w].calls + 1
              /\ worker'[w].st # "lock_errors"
              /\ NoDelimiter(worker'[w].response))
             => /\ worker'[w].data = <<>>
                /\ worker'[w].headers = <<>>
                /\ worker'[w].st = "EOFSignaled"
                /\ worker'[w].retry_attempts = worker[w].retry_attempts
                /\ download_errors' = download_errors
       /\ \A w \in Slots :
             worker[w].st = "EOFSignaled" => worker'[w] = worker[w]
       /\ (pc = "join" /\ pc' # "join"
              /\ \E w \in Spawned : /\ worker[w].st = "EOFSignaled"
                                    /\ NoDelimiter(worker[w].response))
          => eof_reached']_vars

C19_Witness ==
    /\ eof_reached
    /\ \E w \in Spawned : /\ worker[w].st = "EOFSignaled"
                          /\ worker[w].chunk_id > 0
                          /\ worker[w].response = Truncated(worker[w].chunk_id)
                          /\ idx <= Len(handles)
                          /\ handles[idx] = w

====
